---- MODULE Spec2Model ----
(***************************************************************************)
(* Temporal cycle enumeration (slitiWassim/Temporal_Cycles_Detection).     *)
(*                                                                         *)
(* Two engines are modelled, each as the generator pipeline the source     *)
(* writes:                                                                 *)
(*   exact       temporal_cycles_  (cycles_detection_temporal_edge.py)     *)
(*   structural  temporal_cycles   (cycles_detection.py)                   *)
(* A generator suspended at a yield is a state with pc = "yielded"; the    *)
(* caller pulling the next item is the resume action.  The recursion of    *)
(* backtrack is an explicit stack of frames.                               *)
(***************************************************************************)
EXTENDS Integers, Sequences, FiniteSets, TLC

\* ---------------------------------------------------------------- universe
\* Node names and timestamps of the generic graph family.  Three nodes give
\* self-loops, two-cycles and a triangle; three timestamps give a strictly
\* increasing choice along the longest cycle.
Nodes == {1, 2, 3}
Times == {1, 2, 3}
\* A graph of the generic family holds at most as many edge events as there
\* are nodes (one event = one timestamp occurrence on one directed edge).
EventBudget == Cardinality(Nodes)

\* ------------------------------------------------------------------ bounds
\* max_cycles is None or 1..MaxCap, max_combo None or 1..MaxCombo.
MaxCap == 1
MaxCombo == 1

\* ------------------------------------------------- optional values (None)
\* A Python optional is a sequence of length 0 (None) or 1 (the value).
None == <<>>
Some(x) == <<x>>
IsNone(o) == o = None
Val(o) == o[1]
\* Python truthiness of an optional integer: None and 0 are falsy.
Truthy(o) == IF o = None THEN FALSE ELSE o[1] # 0

\* ------------------------------------------------------- sequence helpers
Last(s) == s[Len(s)]
Front(s) == SubSeq(s, 1, Len(s) - 1)
Range(s) == {s[i] : i \in 1..Len(s)}

MinOf(S) == CHOOSE x \in S : \A y \in S : x <= y
MaxOf(S) == CHOOSE x \in S : \A y \in S : y <= x

\* The elements of a finite set of integers in ascending order.
SetToSeq(S) ==
    [i \in 1..Cardinality(S) |-> CHOOSE x \in S : Cardinality({y \in S : y < x}) = i - 1]

RECURSIVE Flatten(_)
\* chain.from_iterable / concatenation of a sequence of sequences.
Flatten(ss) == IF ss = <<>> THEN <<>> ELSE Head(ss) \o Flatten(Tail(ss))

RECURSIVE insert_sorted(_, _)
insert_sorted(x, s) ==
    IF s = <<>> THEN <<x>>
    ELSE IF x < Head(s) THEN <<x>> \o s
    ELSE <<Head(s)>> \o insert_sorted(x, Tail(s))

RECURSIVE sorted_list(_)
\* Python's sorted() on a list of integers (ascending, duplicates kept).
sorted_list(s) == IF s = <<>> THEN <<>> ELSE insert_sorted(Last(s), sorted_list(Front(s)))

RECURSIVE bisect_right_from(_, _, _, _)
\* bisect.bisect_right(a, x, lo, hi) with 0-based lo, hi on the 1-based a.
bisect_right_from(a, x, lo, hi) ==
    IF lo < hi
    THEN LET mid == (lo + hi) \div 2
         IN  IF x < a[mid + 1]
             THEN bisect_right_from(a, x, lo, mid)
             ELSE bisect_right_from(a, x, mid + 1, hi)
    ELSE lo

\* Mutant of bisect_right: bisect_left, the insertion point before the entries
\* equal to x, which lets a timestamp equal to prev_time through.
bisect_left(a, x) == Cardinality({k \in 1..Len(a) : a[k] < x})

bisect_right(a, x) == bisect_right_from(a, x, 0, Len(a))

\* --------------------------------------------------------- graph backend
\* A graph maps every ordered node pair to the edge's history as the backend
\* returns it: a sequence of timestamps, <<>> when there is no edge.
Pairs == Nodes \X Nodes
EmptyGraph == [p \in Pairs |-> <<>>]
HasEdge(g, u, v) == g[<<u, v>>] # <<>>

AddEvent(g, p, t) == [g EXCEPT ![p] = Append(@, t)]

RECURSIVE GraphsWith(_, _)
\* Every graph over Nodes with exactly n edge events, timestamps in T, the
\* events of an edge listed in any order.
GraphsWith(n, T) ==
    IF n = 0 THEN {EmptyGraph}
    ELSE {AddEvent(g, p, t) : g \in GraphsWith(n - 1, T), p \in Pairs, t \in T}

GraphsUpTo(n, T) == UNION {GraphsWith(k, T) : k \in 0..n}

\* rp.strongly_connected_components: u and v are in one component iff each
\* reaches the other.  ReachFrom(g, S) is the set of nodes reachable from S.
RECURSIVE ReachFrom(_, _)
ReachFrom(g, S) ==
    LET S2 == S \cup {w \in Nodes : \E u \in S : g[<<u, w>>] # <<>>}
    IN  IF S2 = S THEN S ELSE ReachFrom(g, S2)

SccOf(g, u) == {v \in ReachFrom(g, {u}) : u \in ReachFrom(g, {v})}

\* The components with more than one node, as lists; groups and their
\* members are listed in ascending order of name.
nontrivial_components(g) ==
    LET leaders == {u \in Nodes : Cardinality(SccOf(g, u)) > 1 /\ u = MinOf(SccOf(g, u))}
        ls == SetToSeq(leaders)
    IN  [i \in 1..Len(ls) |-> SetToSeq(SccOf(g, ls[i]))]

\* rolling_g.subgraph(nodes): the edges between the kept nodes.
subgraph(g, ns) ==
    [p \in Pairs |-> IF p[1] \in ns /\ p[2] \in ns THEN g[p] ELSE <<>>]

\* node.out_edges of the (sub)graph g, as destination names, ascending.
out_edges(g, v) == SetToSeq({w \in Nodes : HasEdge(g, v, w)})


\* ------------------------------------------------------------------ state
VARIABLES
    mode,          \* "exact": temporal_cycles_, "structural": temporal_cycles
    graph,         \* the graph the caller passes in
    max_length, max_cycles, max_duration, max_combo,   \* optional integers
    pc,            \* "outer" | "search" | "yielded" | "done"
    components,    \* list of the node lists of the components kept
    rolling_g,     \* the graph restricted to the kept nodes
    adjacency,     \* exact mode: pair -> ascending timestamp list
    cycle_count,   \* cycle_count[0]
    ci, si,        \* position of the loops over components and start nodes
    start,         \* the start node of the running search
    path, times_path, blocked, B,   \* the running search's own state
    stack,         \* active backtrack calls, innermost last
    pending,       \* structural mode: valid_cycles not yet yielded
    emitted        \* every item yielded to the caller so far, in order

vars == <<mode, graph, max_length, max_cycles, max_duration, max_combo, pc,
          components, rolling_g, adjacency, cycle_count, ci, si, start,
          path, times_path, blocked, B, stack, pending, emitted>>

config == <<mode, graph, max_length, max_cycles, max_duration, max_combo>>
prepared == <<components, rolling_g, adjacency>>
search == <<start, path, times_path, blocked, B, stack>>

\* ------------------------------------------- exact mode: neighbour steps
RECURSIVE steps_of_once(_, _)
\* Mutant of steps_of: a timestamp that occurs several times in the list is
\* yielded once.
steps_of_once(nbr, ts) ==
    IF ts = <<>> THEN <<>>
    ELSE IF Len(ts) > 1 /\ ts[2] = Head(ts) THEN steps_of_once(nbr, Tail(ts))
    ELSE <<<<nbr, Head(ts)>>>> \o steps_of_once(nbr, Tail(ts))

RECURSIVE steps_of(_, _)
\* One step <<nbr, t>> per timestamp of the list ts, in order.
steps_of(nbr, ts) ==
    IF ts = <<>> THEN <<>> ELSE <<<<nbr, Head(ts)>>>> \o steps_of(nbr, Tail(ts))

\* Mutant of out_neighbors_exact: prev_time is ignored and every timestamp of
\* every out-edge is yielded.
out_neighbors_exact_unfiltered(node_id, prev_time, adj) ==
    LET nbrs == SetToSeq({w \in Nodes : adj[<<node_id, w>>] # <<>>})
    IN  Flatten([k \in 1..Len(nbrs) |-> steps_of(nbrs[k], adj[<<node_id, nbrs[k]>>])])

\* _out_neighbors(node_id, prev_time, adjacency), as the list it yields.
out_neighbors_exact(node_id, prev_time, adj) ==
    LET nbrs == SetToSeq({w \in Nodes : adj[<<node_id, w>>] # <<>>})
        eligible(times) ==
            IF IsNone(prev_time) THEN times
            ELSE SubSeq(times, bisect_right(times, Val(prev_time)) + 1, Len(times))
    IN  Flatten([k \in 1..Len(nbrs) |->
                    steps_of(nbrs[k], eligible(adj[<<node_id, nbrs[k]>>]))])

\* ------------------------------------------------ Johnson's unblock(u)
RECURSIVE unblock(_, _, _)
RECURSIVE unblock_loop(_, _, _, _)
\* The (blocked, B) left by unblock(u) run on (bl, b).
unblock(u, bl, b) ==
    IF u \in bl
    THEN unblock_loop(SetToSeq(b[u]), u, bl \ {u}, b)
    ELSE [blocked |-> bl, B |-> b]

\* for v in list(B[u]): B[u].remove(v); unblock(v)
unblock_loop(vs, u, bl, b) ==
    IF vs = <<>> THEN [blocked |-> bl, B |-> b]
    ELSE LET r == unblock(Head(vs), bl, [b EXCEPT ![u] = @ \ {Head(vs)}])
         IN  unblock_loop(Tail(vs), u, r.blocked, r.B)

\* Mutant of register: the dependency is recorded the wrong way round, the
\* out-neighbours under v instead of v under each out-neighbour.
register_reversed(v, ws, b) == [b EXCEPT ![v] = @ \cup ws]

\* B[w].add(v) for every w of ws.
register(v, ws, b) == [n \in Nodes |-> IF n \in ws THEN b[n] \cup {v} ELSE b[n]]

\* ------------------------------------------------------ frames and loops
Frame(v, steps) == [v |-> v, steps |-> steps, i |-> 1, closed |-> FALSE]
Top == stack[Len(stack)]
HasStep == pc = "search" /\ Top.i <= Len(Top.steps)
CurW == Top.steps[Top.i][1]
CurT == Top.steps[Top.i][2]
Advance(st) == [st EXCEPT ![Len(st)].i = @ + 1]
\* closed = True in every active call, the innermost moving on to its next step.
MarkClosed(st) ==
    [k \in 1..Len(st) |->
        IF k = Len(st) THEN [st[k] EXCEPT !.closed = TRUE, !.i = @ + 1]
        ELSE [st[k] EXCEPT !.closed = TRUE]]

\* Mutant of CapReached: the counter has to exceed max_cycles.
CapReached_exceeded(count) == Truthy(max_cycles) /\ count > Val(max_cycles)

\* if max_cycles and cycle_count[0] >= max_cycles
CapReached(count) == Truthy(max_cycles) /\ count >= Val(max_cycles)

\* (max_length is None or len(path) <= max_length)
LengthAccepts(p) == IF IsNone(max_length) THEN TRUE ELSE Len(p) <= Val(max_length)

\* Mutant of CanExtend: the path is extended whatever its length.
CanExtend_unbounded(w, p) == w \notin Range(p)

\* Mutant of CanExtend: the test that w is not on the path is dropped.
CanExtend_revisits(w, p) ==
    IF IsNone(max_length) THEN TRUE ELSE Len(p) < Val(max_length)

\* w not in path and (max_length is None or len(path) < max_length)
CanExtend(w, p) ==
    /\ w \notin Range(p)
    /\ IF IsNone(max_length) THEN TRUE ELSE Len(p) < Val(max_length)

\* Mutant of NextStartIndex: as long as the call has found nothing the loops
\* do not move on and the same start node is searched again.
NextStartIndex_retries ==
    IF cycle_count = 0 THEN <<ci, si>>
    ELSE IF si < Len(components[ci]) THEN <<ci, si + 1>> ELSE <<ci + 1, 1>>

\* Mutant of NextStartIndex: only the first node of a component is a start node.
NextStartIndex_first_only == <<ci + 1, 1>>

\* The loops over components and start nodes move to the next start node.
NextStartIndex ==
    IF si < Len(components[ci]) THEN <<ci, si + 1>> ELSE <<ci + 1, 1>>

\* ------------------------------------------------------------ exact mode
\* Mutant of exact_start: the counter is a fresh one for every start node.
exact_start_resets_counter ==
    /\ pc = "outer" /\ mode = "exact" /\ ci <= Len(components)
    /\ LET s == components[ci][si]
       IN  /\ start' = s
           /\ path' = <<s>>
           /\ times_path' = <<>>
           /\ blocked' = {s}
           /\ B' = [n \in Nodes |-> {}]
           /\ stack' = <<Frame(s, out_neighbors_exact(s, None, adjacency))>>
    /\ pc' = "search"
    /\ cycle_count' = 0
    /\ UNCHANGED <<config, prepared, ci, si, pending, emitted>>

\* The next start node: johnson_temporal_cycle_search up to backtrack's loop.
exact_start ==
    /\ pc = "outer" /\ mode = "exact" /\ ci <= Len(components)
    /\ LET s == components[ci][si]
       IN  /\ start' = s
           /\ path' = <<s>>
           /\ times_path' = <<>>
           /\ blocked' = {s}
           /\ B' = [n \in Nodes |-> {}]
           /\ stack' = <<Frame(s, out_neighbors_exact(s, None, adjacency))>>
    /\ pc' = "search"
    /\ UNCHANGED <<config, prepared, cycle_count, ci, si, pending, emitted>>

\* Both loops are exhausted: the generator ends.
exact_finish ==
    /\ pc = "outer" /\ mode = "exact" /\ ci > Len(components)
    /\ pc' = "done"
    /\ UNCHANGED <<config, prepared, cycle_count, ci, si, search, pending, emitted>>

\* if times_path and max_duration and t_next - times_path[0] > max_duration
exact_pruned ==
    /\ times_path # <<>>
    /\ Truthy(max_duration)
    /\ CurT - times_path[1] > Val(max_duration)

\* Mutant of exact_accepts: the duration test is guarded by the truthiness of
\* max_duration, as the pruning test is, so that max_duration = 0 accepts all.
exact_accepts_zero_unbounded ==
    LET duration == IF times_path # <<>> THEN CurT - times_path[1] ELSE 0
    IN  /\ LengthAccepts(path)
        /\ IF Truthy(max_duration) THEN duration <= Val(max_duration) ELSE TRUE

\* The acceptance test of a closing step (w == start).
exact_accepts ==
    LET duration == IF times_path # <<>> THEN CurT - times_path[1] ELSE 0
    IN  /\ LengthAccepts(path)
        /\ IF IsNone(max_duration) THEN TRUE ELSE duration <= Val(max_duration)

\* Mutant of exact_cycle: the closing start node is not appended.
exact_cycle_open == <<path, times_path \o <<CurT>>>>

\* What a closing step yields.
exact_cycle == <<path \o <<start>>, times_path \o <<CurT>>>>

exact_backtrack_prune ==
    /\ HasStep /\ mode = "exact"
    /\ exact_pruned
    /\ stack' = Advance(stack)
    /\ UNCHANGED <<config, prepared, cycle_count, ci, si, start, path, times_path,
                   blocked, B, pending, emitted, pc>>

exact_backtrack_close ==
    /\ HasStep /\ mode = "exact"
    /\ ~exact_pruned
    /\ CurW = start
    /\ exact_accepts
    /\ cycle_count' = cycle_count + 1
    /\ emitted' = Append(emitted, exact_cycle)
    /\ pc' = "yielded"
    /\ UNCHANGED <<config, prepared, ci, si, search, pending>>

exact_backtrack_reject ==
    /\ HasStep /\ mode = "exact"
    /\ ~exact_pruned
    /\ CurW = start
    /\ ~exact_accepts
    /\ stack' = Advance(stack)
    /\ UNCHANGED <<config, prepared, cycle_count, ci, si, start, path, times_path,
                   blocked, B, pending, emitted, pc>>

exact_backtrack_descend ==
    /\ HasStep /\ mode = "exact"
    /\ ~exact_pruned
    /\ CurW # start
    /\ CanExtend(CurW, path)
    /\ path' = Append(path, CurW)
    /\ times_path' = Append(times_path, CurT)
    /\ blocked' = blocked \cup {CurW}
    /\ stack' = Append(stack, Frame(CurW, out_neighbors_exact(CurW, Some(CurT), adjacency)))
    /\ UNCHANGED <<config, prepared, cycle_count, ci, si, start, B, pending, emitted, pc>>

exact_backtrack_skip ==
    /\ HasStep /\ mode = "exact"
    /\ ~exact_pruned
    /\ CurW # start
    /\ ~CanExtend(CurW, path)
    /\ stack' = Advance(stack)
    /\ UNCHANGED <<config, prepared, cycle_count, ci, si, start, path, times_path,
                   blocked, B, pending, emitted, pc>>

\* backtrack's loop is over: Johnson bookkeeping, then back in the caller
\* (path.pop(), times_path.pop()) or, for the outermost call, in the loops
\* of temporal_cycles_.
exact_bookkeeping ==
    IF Top.closed
    THEN unblock(Top.v, blocked, B)
    ELSE [blocked |-> blocked,
          B |-> register(Top.v, {w \in Nodes : adjacency[<<Top.v, w>>] # <<>>}, B)]

exact_backtrack_return ==
    /\ pc = "search" /\ mode = "exact"
    /\ Top.i > Len(Top.steps)
    /\ blocked' = exact_bookkeeping.blocked
    /\ B' = exact_bookkeeping.B
    /\ IF Len(stack) > 1
       THEN /\ stack' = Advance(Front(stack))
            /\ path' = Front(path)
            /\ times_path' = Front(times_path)
            /\ UNCHANGED <<pc, ci, si>>
       ELSE /\ stack' = <<>>
            /\ pc' = "outer"
            /\ ci' = NextStartIndex[1]
            /\ si' = NextStartIndex[2]
            /\ UNCHANGED <<path, times_path>>
    /\ UNCHANGED <<config, prepared, cycle_count, start, pending, emitted>>

\* The caller pulls the next item.  temporal_cycles_ tests the cap first and
\* returns; otherwise every active backtrack call resumes after its yield
\* (closed = True, the same cap test, which is false here) and the innermost
\* goes on with its loop.
exact_resume ==
    /\ pc = "yielded" /\ mode = "exact"
    /\ IF CapReached(cycle_count)
       THEN /\ pc' = "done"
            /\ UNCHANGED stack
       ELSE /\ pc' = "search"
            /\ stack' = MarkClosed(stack)
    /\ UNCHANGED <<config, prepared, cycle_count, ci, si, start, path, times_path,
                   blocked, B, pending, emitted>>

ExactNext ==
    \/ exact_start
    \/ exact_finish
    \/ exact_backtrack_prune
    \/ exact_backtrack_close
    \/ exact_backtrack_reject
    \/ exact_backtrack_descend
    \/ exact_backtrack_skip
    \/ exact_backtrack_return
    \/ exact_resume

\* ------------------------------------------------------- structural mode
\* edge.earliest_time, edge.latest_time of a non-empty history.
earliest_time(h) == MinOf(Range(h))
latest_time(h) == MaxOf(Range(h))

\* Mutant of out_neighbors: the interval test asks for an edge that lies
\* wholly after the previous one, min(next) > max(prev).
out_neighbors_disjoint(node_id, prev_interval, g) ==
    LET dsts == out_edges(g, node_id)
        next_interval(w) == <<earliest_time(g[<<node_id, w>>]), latest_time(g[<<node_id, w>>])>>
        feasible(w) ==
            IF IsNone(prev_interval) THEN TRUE
            ELSE next_interval(w)[1] > Val(prev_interval)[2]
        keep == {k \in 1..Len(dsts) : feasible(dsts[k])}
        ks == SetToSeq(keep)
    IN  [j \in 1..Len(ks) |-> <<dsts[ks[j]], next_interval(dsts[ks[j]])>>]

\* out_neighbors(node_id, prev_interval, rolling_g), as the list it yields:
\* steps <<dst, <<earliest, latest>>>>.
out_neighbors(node_id, prev_interval, g) ==
    LET dsts == out_edges(g, node_id)
        next_interval(w) == <<earliest_time(g[<<node_id, w>>]), latest_time(g[<<node_id, w>>])>>
        feasible(w) ==
            IF IsNone(prev_interval) THEN TRUE
            ELSE next_interval(w)[2] > Val(prev_interval)[1]
        keep == {k \in 1..Len(dsts) : feasible(dsts[k])}
        ks == SetToSeq(keep)
    IN  [j \in 1..Len(ks) |-> <<dsts[ks[j]], next_interval(dsts[ks[j]])>>]

\* validate_cycle's dfs.  acc is [seen, results]; prev_t is None for -inf;
\* i counts the edges already given a timestamp.
RECURSIVE dfs(_, _, _, _, _, _, _)
RECURSIVE dfs_loop(_, _, _, _, _, _, _, _)
\* Mutant of dfs: a combination is recorded without looking it up in seen.
dfs_keeps_duplicates(i, prev_t, combo, acc, time_lists, node_path, limits) ==
    IF ~IsNone(limits.max_combo) /\ Len(acc.results) >= Val(limits.max_combo)
    THEN acc
    ELSE IF i = Len(time_lists)
    THEN IF ~IsNone(limits.max_duration)
            /\ Last(combo) - Head(combo) > Val(limits.max_duration)
         THEN acc
         ELSE [seen |-> acc.seen \cup {<<node_path, combo>>},
               results |-> Append(acc.results, <<node_path, combo>>)]
    ELSE dfs_loop(time_lists[i + 1], i, prev_t, combo, acc, time_lists, node_path, limits)

dfs(i, prev_t, combo, acc, time_lists, node_path, limits) ==
    IF ~IsNone(limits.max_combo) /\ Len(acc.results) >= Val(limits.max_combo)
    THEN acc
    ELSE IF i = Len(time_lists)
    THEN IF ~IsNone(limits.max_duration)
            /\ Last(combo) - Head(combo) > Val(limits.max_duration)
         THEN acc
         ELSE IF <<node_path, combo>> \in acc.seen
         THEN acc
         ELSE [seen |-> acc.seen \cup {<<node_path, combo>>},
               results |-> Append(acc.results, <<node_path, combo>>)]
    ELSE dfs_loop(time_lists[i + 1], i, prev_t, combo, acc, time_lists, node_path, limits)

\* for t in time_lists[i]: ... over the timestamps ts still to try.
dfs_loop(ts, i, prev_t, combo, acc, time_lists, node_path, limits) ==
    IF ts = <<>> THEN acc
    ELSE IF ~IsNone(limits.max_combo) /\ Len(acc.results) >= Val(limits.max_combo)
    THEN acc
    ELSE LET t == Head(ts)
             later == IF IsNone(prev_t) THEN TRUE ELSE t > Val(prev_t)
             acc2 == IF later
                     THEN dfs(i + 1, Some(t), Append(combo, t), acc, time_lists, node_path, limits)
                     ELSE acc
         IN  dfs_loop(Tail(ts), i, prev_t, combo, acc2, time_lists, node_path, limits)

\* validate_cycle(rolling_g, edge_cycle, max_duration, max_combo): the list
\* of (node tuple, timestamp list) it returns.
validate_cycle(g, edge_cycle, maxd, maxc) ==
    IF \E k \in 1..Len(edge_cycle) : g[edge_cycle[k]] = <<>>
    THEN <<>>
    ELSE LET time_lists == [k \in 1..Len(edge_cycle) |-> sorted_list(g[edge_cycle[k]])]
             node_path == <<edge_cycle[1][1]>> \o [k \in 1..Len(edge_cycle) |-> edge_cycle[k][2]]
         IN  dfs(0, None, <<>>, [seen |-> {}, results |-> <<>>], time_lists, node_path,
                 [max_duration |-> maxd, max_combo |-> maxc]).results

\* list(zip(raw_cycle_nodes[:-1], raw_cycle_nodes[1:]))
edge_cycle_of(raw_cycle_nodes) ==
    [k \in 1..(Len(raw_cycle_nodes) - 1) |-> <<raw_cycle_nodes[k], raw_cycle_nodes[k + 1]>>]

struct_start ==
    /\ pc = "outer" /\ mode = "structural" /\ ci <= Len(components)
    /\ LET s == components[ci][si]
       IN  /\ start' = s
           /\ path' = <<s>>
           /\ times_path' = <<>>
           /\ blocked' = {s}
           /\ B' = [n \in Nodes |-> {}]
           /\ stack' = <<Frame(s, out_neighbors(s, None, rolling_g))>>
    /\ pc' = "search"
    /\ UNCHANGED <<config, prepared, cycle_count, ci, si, pending, emitted>>

struct_finish ==
    /\ pc = "outer" /\ mode = "structural" /\ ci > Len(components)
    /\ pc' = "done"
    /\ UNCHANGED <<config, prepared, cycle_count, ci, si, search, pending, emitted>>

\* if max_duration and times_path: next_interval[0] - times_path[0][1] > max_duration
struct_pruned ==
    /\ Truthy(max_duration)
    /\ times_path # <<>>
    /\ CurT[1] - times_path[1][2] > Val(max_duration)

struct_accepts ==
    LET duration == IF times_path # <<>> THEN CurT[1] - times_path[1][2] ELSE 0
    IN  /\ LengthAccepts(path)
        /\ IF IsNone(max_duration) THEN TRUE ELSE duration <= Val(max_duration)

\* The validator's answer for the structural cycle a closing step yields.
struct_valid_cycles ==
    validate_cycle(rolling_g, edge_cycle_of(path \o <<start>>), max_duration, max_combo)

struct_backtrack_prune ==
    /\ HasStep /\ mode = "structural"
    /\ struct_pruned
    /\ stack' = Advance(stack)
    /\ UNCHANGED <<config, prepared, cycle_count, ci, si, start, path, times_path,
                   blocked, B, pending, emitted, pc>>

\* A structural cycle with realizations: temporal_cycles counts them all and
\* yields the first.
struct_backtrack_close_valid ==
    /\ HasStep /\ mode = "structural"
    /\ ~struct_pruned
    /\ CurW = start
    /\ struct_accepts
    /\ struct_valid_cycles # <<>>
    /\ cycle_count' = cycle_count + Len(struct_valid_cycles)
    /\ emitted' = Append(emitted, Head(struct_valid_cycles))
    /\ pending' = Tail(struct_valid_cycles)
    /\ pc' = "yielded"
    /\ UNCHANGED <<config, prepared, ci, si, search>>

\* A structural cycle without realizations: temporal_cycles asks the search
\* for the next one at once, and every active backtrack call resumes after
\* its yield (closed = True).
struct_backtrack_close_invalid ==
    /\ HasStep /\ mode = "structural"
    /\ ~struct_pruned
    /\ CurW = start
    /\ struct_accepts
    /\ struct_valid_cycles = <<>>
    /\ stack' = MarkClosed(stack)
    /\ UNCHANGED <<config, prepared, cycle_count, ci, si, start, path, times_path,
                   blocked, B, pending, emitted, pc>>

struct_backtrack_reject ==
    /\ HasStep /\ mode = "structural"
    /\ ~struct_pruned
    /\ CurW = start
    /\ ~struct_accepts
    /\ stack' = Advance(stack)
    /\ UNCHANGED <<config, prepared, cycle_count, ci, si, start, path, times_path,
                   blocked, B, pending, emitted, pc>>

struct_backtrack_descend ==
    /\ HasStep /\ mode = "structural"
    /\ ~struct_pruned
    /\ CurW # start
    /\ CanExtend(CurW, path)
    /\ path' = Append(path, CurW)
    /\ times_path' = Append(times_path, CurT)
    /\ blocked' = blocked \cup {CurW}
    /\ stack' = Append(stack, Frame(CurW, out_neighbors(CurW, Some(CurT), rolling_g)))
    /\ UNCHANGED <<config, prepared, cycle_count, ci, si, start, B, pending, emitted, pc>>

struct_backtrack_skip ==
    /\ HasStep /\ mode = "structural"
    /\ ~struct_pruned
    /\ CurW # start
    /\ ~CanExtend(CurW, path)
    /\ stack' = Advance(stack)
    /\ UNCHANGED <<config, prepared, cycle_count, ci, si, start, path, times_path,
                   blocked, B, pending, emitted, pc>>

struct_bookkeeping ==
    IF Top.closed
    THEN unblock(Top.v, blocked, B)
    ELSE [blocked |-> blocked,
          B |-> register(Top.v, Range(out_edges(rolling_g, Top.v)), B)]

struct_backtrack_return ==
    /\ pc = "search" /\ mode = "structural"
    /\ Top.i > Len(Top.steps)
    /\ blocked' = struct_bookkeeping.blocked
    /\ B' = struct_bookkeeping.B
    /\ IF Len(stack) > 1
       THEN /\ stack' = Advance(Front(stack))
            /\ path' = Front(path)
            /\ times_path' = Front(times_path)
            /\ UNCHANGED <<pc, ci, si>>
       ELSE /\ stack' = <<>>
            /\ pc' = "outer"
            /\ ci' = NextStartIndex[1]
            /\ si' = NextStartIndex[2]
            /\ UNCHANGED <<path, times_path>>
    /\ UNCHANGED <<config, prepared, cycle_count, start, pending, emitted>>

\* The caller pulls the next item while valid_cycles still holds some.
struct_yield_next ==
    /\ pc = "yielded" /\ mode = "structural"
    /\ pending # <<>>
    /\ emitted' = Append(emitted, Head(pending))
    /\ pending' = Tail(pending)
    /\ UNCHANGED <<config, prepared, cycle_count, ci, si, search, pc>>

\* The caller pulls the next item after the last of valid_cycles: the cap
\* test of temporal_cycles, then the search resumes.
struct_resume ==
    /\ pc = "yielded" /\ mode = "structural"
    /\ pending = <<>>
    /\ IF CapReached(cycle_count)
       THEN /\ pc' = "done"
            /\ UNCHANGED stack
       ELSE /\ pc' = "search"
            /\ stack' = MarkClosed(stack)
    /\ UNCHANGED <<config, prepared, cycle_count, ci, si, start, path, times_path,
                   blocked, B, pending, emitted>>

StructNext ==
    \/ struct_start
    \/ struct_finish
    \/ struct_backtrack_prune
    \/ struct_backtrack_close_valid
    \/ struct_backtrack_close_invalid
    \/ struct_backtrack_reject
    \/ struct_backtrack_descend
    \/ struct_backtrack_skip
    \/ struct_backtrack_return
    \/ struct_yield_next
    \/ struct_resume

\* ---------------------------------------------------------- specification
\* The bounds a caller may pass: every max_length and max_duration that can
\* exclude something on these graphs, caps up to MaxCap and MaxCombo.
LengthOpts == {None} \cup {Some(n) : n \in 1..(Cardinality(Nodes) - 1)}
DurationOpts == {None} \cup {Some(n) : n \in 0..(Cardinality(Times) - 2)}
CapOpts == {None} \cup {Some(n) : n \in 1..MaxCap}
ComboOpts == {None} \cup {Some(n) : n \in 1..MaxCombo}

\* The state in which the first item is pulled: the call's arguments, and
\* the components, the subgraph and (exact mode) the adjacency index that the
\* prelude of temporal_cycles_ / temporal_cycles computes from them.
InitWith(graphs, modes, lengths, caps, durations, combos) ==
    /\ mode \in modes
    /\ graph \in graphs
    /\ components = nontrivial_components(graph)
    /\ rolling_g = subgraph(graph, Range(Flatten(components)))
    /\ adjacency = IF mode = "exact"
                   THEN [p \in Pairs |-> sorted_list(rolling_g[p])]
                   ELSE EmptyGraph
    /\ max_length \in lengths
    /\ max_cycles \in caps
    /\ max_duration \in durations
    /\ max_combo \in IF mode = "exact" THEN {None} ELSE combos
    /\ pc = "outer"
    /\ cycle_count = 0
    /\ ci = 1 /\ si = 1
    /\ start = 0
    /\ path = <<>> /\ times_path = <<>> /\ blocked = {}
    /\ B = [n \in Nodes |-> {}]
    /\ stack = <<>>
    /\ pending = <<>>
    /\ emitted = <<>>

Modes == {"exact", "structural"}

\* The graphs of the specification's scenarios, with nodes A = 1, B = 2, C = 3.
GraphOf(edges) == [p \in Pairs |-> IF p \in DOMAIN edges THEN edges[p] ELSE <<>>]
Scenario1 == GraphOf(<<1, 2>> :> <<10>> @@ <<2, 3>> :> <<20>> @@ <<3, 1>> :> <<30>>)
Scenario2 == GraphOf(<<1, 2>> :> <<10>> @@ <<2, 3>> :> <<20>> @@ <<3, 1>> :> <<5>>)
Scenario3 == GraphOf(<<1, 2>> :> <<10, 15>> @@ <<2, 1>> :> <<12, 20>>)
Scenarios == {Scenario1, Scenario2, Scenario3}

\* Three graphs beyond the event budget.  A triangle whose intervals overlap
\* (the interval test of out_neighbors passes) without a strictly increasing
\* choice; a triangle whose only realization takes the later timestamp of an
\* edge; a two-cycle whose histories repeat timestamps.
IntervalOnly == GraphOf(<<1, 2>> :> <<1>> @@ <<2, 3>> :> <<1, 3>> @@ <<3, 1>> :> <<2>>)
IntervalLate == GraphOf(<<1, 2>> :> <<2>> @@ <<2, 3>> :> <<1, 3>> @@ <<3, 1>> :> <<4>>)
RepeatedTimes == GraphOf(<<1, 2>> :> <<2, 1, 1>> @@ <<2, 1>> :> <<3, 3>>)
CoarseGraphs == {IntervalOnly, IntervalLate, RepeatedTimes}

Graphs == GraphsUpTo(EventBudget, Times) \cup Scenarios \cup CoarseGraphs

Init == InitWith(Graphs, Modes, LengthOpts, CapOpts, DurationOpts, ComboOpts)

Next == ExactNext \/ StructNext

Spec == Init /\ [][Next]_vars

\* A caller that keeps pulling results: whenever the generator can take a
\* step it eventually takes one.
\* The calls it is checked on: every graph of the event budget on two nodes
\* and two timestamps (self-loops, two-cycles, repeated and tied timestamps),
\* and the graphs of the scenarios (two triangles and a two-cycle).
TwoNodeGraphs ==
    {g \in GraphsUpTo(EventBudget, {1, 2}) :
        \A p \in Pairs : HasEdge(g, p[1], p[2]) => p \in {1, 2} \X {1, 2}}
FairGraphs == TwoNodeGraphs \cup Scenarios

FairInit == InitWith(FairGraphs, Modes, LengthOpts, CapOpts, DurationOpts, ComboOpts)

FairSpec == FairInit /\ [][Next]_vars /\ WF_vars(Next)

\* Calls with a negative argument: every argument is unset or -1, one of them
\* at least is -1.  Neither entry point tests its arguments, so such a call
\* starts like any other.
NegativeOpts == {None, Some(-1)}
IsNegative(o) == IF IsNone(o) THEN FALSE ELSE Val(o) < 0
NegativeConfig ==
    IsNegative(max_length) \/ IsNegative(max_cycles) \/ IsNegative(max_duration)
        \/ IsNegative(max_combo)

InitNegative ==
    /\ InitWith(Graphs, Modes, NegativeOpts, NegativeOpts, NegativeOpts, NegativeOpts)
    /\ NegativeConfig

SpecNegative == InitNegative /\ [][Next]_vars

\* ------------------------------------------------------------- reference
\* The brute-force enumeration the claims compare the engines with.
\* Sequences of pairwise distinct nodes: the elementary cycles, each written
\* from each of its nodes.
ElementaryPaths ==
    UNION {{p \in [1..n -> Nodes] : \A i, j \in 1..n : i # j => p[i] # p[j]} :
             n \in 1..Cardinality(Nodes)}

\* The k-th edge of the cycle that closes the path p.
CycleEdge(p, k) == <<p[k], p[(k % Len(p)) + 1]>>
CycleEdges(p) == {CycleEdge(p, k) : k \in 1..Len(p)}
EdgesOf(g) == {e \in Pairs : g[e] # <<>>}
AllTimes(g) == UNION {Range(g[e]) : e \in Pairs}

StrictlyIncreasing(ts) == \A i \in 1..(Len(ts) - 1) : ts[i] < ts[i + 1]

\* One timestamp per edge of the cycle of p, from that edge's history,
\* strictly increasing.
RealizationsOf(g, p) ==
    {ts \in [1..Len(p) -> AllTimes(g)] :
        /\ \A k \in 1..Len(p) : ts[k] \in Range(g[CycleEdge(p, k)])
        /\ StrictlyIncreasing(ts)}

WithinLength(p, maxl) == IF IsNone(maxl) THEN TRUE ELSE Len(p) <= Val(maxl)
WithinDuration(ts, maxd) == IF IsNone(maxd) THEN TRUE ELSE ts[Len(ts)] - ts[1] <= Val(maxd)

\* Every realization of every elementary cycle of g within the bounds.
BruteForce(g, maxl, maxd) ==
    UNION {{<<p \o <<p[1]>>, ts>> : ts \in {r \in RealizationsOf(g, p) : WithinDuration(r, maxd)}} :
             p \in {q \in ElementaryPaths : CycleEdges(q) \subseteq EdgesOf(g) /\ WithinLength(q, maxl)}}

Done == pc = "done"
NoBounds == IsNone(max_length) /\ IsNone(max_cycles) /\ IsNone(max_duration) /\ IsNone(max_combo)
Emitted == Range(emitted)


Searching == pc \in {"search", "yielded"}
CapOf == Val(max_cycles)
NodesOf(k) == emitted[k][1]
TimesOf(k) == emitted[k][2]
IsTriangle(g) == \E p \in ElementaryPaths : Len(p) = 3 /\ EdgesOf(g) = CycleEdges(p)
\* A single directed cycle on k >= 2 nodes, one timestamp on every edge.
IsRing(g) ==
    /\ \E p \in ElementaryPaths : Len(p) >= 2 /\ EdgesOf(g) = CycleEdges(p)
    /\ \A e \in EdgesOf(g) : Len(g[e]) = 1

\* ----------------------------------------------------------------- claims

\* C1: every realization emitted, by either engine and under every choice of
\* max_length, max_cycles, max_duration and max_combo, has a strictly
\* increasing timestamp sequence; a tie is never emitted.
C1_StrictlyIncreasing ==
    \A k \in 1..Len(emitted) : StrictlyIncreasing(TimesOf(k))

\* A realization was emitted along a cycle on which two consecutive edges
\* share a timestamp, so that a tie was there to be chosen.
C1_Witness ==
    \E k \in 1..Len(emitted) :
        /\ Len(NodesOf(k)) >= 3
        /\ \E i \in 1..(Len(NodesOf(k)) - 2) :
              Range(graph[<<NodesOf(k)[i], NodesOf(k)[i + 1]>>])
                \cap Range(graph[<<NodesOf(k)[i + 1], NodesOf(k)[i + 2]>>]) # {}

\* C2: in every emitted node sequence the last entry equals the first and all
\* entries but the last are pairwise distinct; and while a start node's search
\* runs, the path holds pairwise distinct nodes and begins with the start node.
C2_Elementary ==
    /\ \A k \in 1..Len(emitted) :
          /\ Len(NodesOf(k)) >= 2
          /\ NodesOf(k)[Len(NodesOf(k))] = NodesOf(k)[1]
          /\ \A i, j \in 1..(Len(NodesOf(k)) - 1) : i # j => NodesOf(k)[i] # NodesOf(k)[j]
    /\ Searching =>
          /\ path # <<>>
          /\ path[1] = start
          /\ \A i, j \in 1..Len(path) : i # j => path[i] # path[j]

\* The search stands at a step back to a node of the path that is not the
\* start node, with the start node and that node on the path.
C2_Witness ==
    /\ HasStep
    /\ Len(path) >= 2
    /\ CurW # start
    /\ CurW \in Range(path)

\* C3: exact mode with max_cycles = C: at most C realizations are emitted over
\* the whole call, and exactly C when the graph has at least C valid
\* realizations.
C3_CapExact ==
    (mode = "exact" /\ ~IsNone(max_cycles)) =>
        /\ Len(emitted) <= CapOf
        /\ (Done /\ Cardinality(BruteForce(graph, max_length, max_duration)) >= CapOf)
              => Len(emitted) = CapOf

\* C4: structural-first mode with max_cycles = C: at most C realizations are
\* emitted over the whole call, also when one structural cycle has several
\* realizations.
C4_CapStructural ==
    (mode = "structural" /\ ~IsNone(max_cycles)) => Len(emitted) <= CapOf

\* C5: with max_duration = D (D = 0 included) every emitted realization spans
\* at most D between its first and its last timestamp.
C5_Duration ==
    ~IsNone(max_duration) =>
        \A k \in 1..Len(emitted) :
            TimesOf(k)[Len(TimesOf(k))] - TimesOf(k)[1] <= Val(max_duration)

\* A call with max_duration = 0 has ended with a realization emitted, on a
\* graph that also has a realization of positive duration.
C5_Witness ==
    /\ Done
    /\ max_duration = Some(0)
    /\ emitted # <<>>
    /\ \E r \in BruteForce(rolling_g, max_length, None) : r[2][Len(r[2])] - r[2][1] > 0

\* C6: with max_length = L every emitted node sequence has at most L distinct
\* nodes, the path of a running search never holds more than L nodes, and a
\* triangle searched with max_length = 2 yields nothing.
C6_Length ==
    ~IsNone(max_length) =>
        /\ \A k \in 1..Len(emitted) : Len(NodesOf(k)) - 1 <= Val(max_length)
        /\ Searching => Len(path) <= Val(max_length)
        /\ (Done /\ IsTriangle(graph) /\ max_length = Some(2)) => emitted = <<>>

\* A call with max_length = 2 and no other bound has ended on a triangle that
\* has a realization.
C6_Witness ==
    /\ Done
    /\ IsTriangle(graph)
    /\ max_length = Some(2)
    /\ IsNone(max_duration) /\ IsNone(max_cycles) /\ IsNone(max_combo)
    /\ BruteForce(graph, None, None) # {}

\* C7: every emitted pair has one timestamp per edge of its node sequence,
\* every such edge exists in the input graph, and every timestamp is one of
\* its edge's history.
C7_EdgesAndHistory ==
    \A k \in 1..Len(emitted) :
        /\ Len(TimesOf(k)) = Len(NodesOf(k)) - 1
        /\ \A i \in 1..Len(TimesOf(k)) :
              /\ graph[<<NodesOf(k)[i], NodesOf(k)[i + 1]>>] # <<>>
              /\ TimesOf(k)[i] \in Range(graph[<<NodesOf(k)[i], NodesOf(k)[i + 1]>>])

\* A realization through three nodes was emitted, one of its edges having two
\* different timestamps in its history.
C7_Witness ==
    \E k \in 1..Len(emitted) :
        /\ Len(NodesOf(k)) >= 3
        /\ \E i \in 1..Len(TimesOf(k)) :
              Cardinality(Range(graph[<<NodesOf(k)[i], NodesOf(k)[i + 1]>>])) >= 2

\* C8: exact mode with max_cycles unset: the set of emitted pairs equals the
\* brute-force set over every elementary cycle of the input graph, self-loops
\* included, within the length and duration bounds.
C8_Completeness ==
    (Done /\ mode = "exact" /\ IsNone(max_cycles)) =>
        Emitted = BruteForce(graph, max_length, max_duration)

\* C9 as stated: on A->B {10,15}, B->A {12,20} without bounds the whole call
\* of temporal_cycles_ emits exactly three realizations, with times (10,12), (10,20), (15,20).
C9_ThreeRealizations ==
    (Done /\ mode = "exact" /\ graph = Scenario3 /\ NoBounds) =>
        /\ Len(emitted) = 3
        /\ {e[2] : e \in Emitted} = {<<10, 12>>, <<10, 20>>, <<15, 20>>}

\* C9 amended: on that graph the whole call emits exactly four realizations:
\* [A,B,A] with (10,12), (10,20), (15,20) from start A, and [B,A,B] with
\* (12,15) from start B.
C9_FourRealizations ==
    (Done /\ mode = "exact" /\ graph = Scenario3 /\ NoBounds) =>
        /\ Len(emitted) = 4
        /\ Emitted = {<<<<1, 2, 1>>, <<10, 12>>>>, <<<<1, 2, 1>>, <<10, 20>>>>,
                      <<<<1, 2, 1>>, <<15, 20>>>>, <<<<2, 1, 2>>, <<12, 15>>>>}

\* The exact engine has run to its end on that graph without bounds.
C9_Witness == Done /\ graph = Scenario3 /\ NoBounds /\ mode = "exact"

\* The rotations of a ring's cycle whose timestamps increase strictly.
IncreasingRotations(g) ==
    {p \in ElementaryPaths :
        /\ EdgesOf(g) = CycleEdges(p)
        /\ StrictlyIncreasing([k \in 1..Len(p) |-> g[CycleEdge(p, k)][1]])}

C11_NegativeRejected ==
    NegativeConfig =>
        /\ pc \notin {"search", "yielded"}
        /\ emitted = <<>>
        /\ cycle_count = 0

\* The search stands at a closing step it accepts: temporal_cycles hands the
\* structural cycle path + [start] to validate_cycle.
ValidatorCalled ==
    /\ HasStep /\ mode = "structural"
    /\ ~struct_pruned
    /\ CurW = start
    /\ struct_accepts

\* The distinct valid realizations of the structural cycle at hand.
ValidRealizations ==
    {r \in RealizationsOf(rolling_g, path) : WithinDuration(r, max_duration)}

\* C12: validate_cycle, on a structural cycle whose edges have non-empty
\* histories (repeated timestamps allowed), returns a list without two equal
\* entries, every entry a strictly increasing choice from the histories
\* within max_duration; the list has N entries when max_combo is unset and
\* min(max_combo, N) when it is set, N the number of distinct valid
\* realizations of the cycle.
C12_Validator ==
    ValidatorCalled =>
        LET vc == struct_valid_cycles
            N == Cardinality(ValidRealizations)
        IN  /\ \A i, j \in 1..Len(vc) : i # j => vc[i] # vc[j]
            /\ \A i \in 1..Len(vc) :
                  /\ vc[i][1] = path \o <<start>>
                  /\ StrictlyIncreasing(vc[i][2])
                  /\ vc[i][2] \in ValidRealizations
            /\ Len(vc) = IF IsNone(max_combo) THEN N
                          ELSE IF Val(max_combo) < N THEN Val(max_combo) ELSE N

\* validate_cycle is called with max_combo set on a cycle that has more
\* distinct valid realizations than max_combo and an edge whose history
\* repeats a timestamp.
C12_Witness ==
    /\ ValidatorCalled
    /\ ~IsNone(max_combo)
    /\ Cardinality(ValidRealizations) > Val(max_combo)
    /\ \E k \in 1..Len(path) :
          Len(rolling_g[CycleEdge(path, k)]) > Cardinality(Range(rolling_g[CycleEdge(path, k)]))

\* The shared counter has reached max_cycles.
CapHit == IF IsNone(max_cycles) THEN FALSE ELSE cycle_count >= Val(max_cycles)

\* C13: once the counter has reached max_cycles no exploration step follows:
\* no node is pushed onto the path, no neighbour is expanded, no start node
\* or component is started and the validator is not called again; what
\* remains hands out realizations already computed and ends the call.
C13_NoExplorationAfterCap ==
    [][CapHit =>
          /\ pc' \in {"yielded", "done"}
          /\ search' = search
          /\ ci' = ci /\ si' = si
          /\ cycle_count' = cycle_count]_vars

\* The call has ended on the cap while an active backtrack call still had
\* steps to take.
C13_Witness ==
    /\ Done /\ CapHit
    /\ \E k \in 1..Len(stack) : stack[k].i < Len(stack[k].steps)

\* C14: during one start node's search the path is never extended to a node
\* that is in blocked at that moment.
C14_BlockedNotExplored ==
    [][(pc = "search" /\ pc' = "search" /\ Len(path') = Len(path) + 1)
          => Last(path') \notin blocked]_vars

\* The timestamp-agnostic out-neighbours of v in the graph searched.
OutNeighbors(v) == {w \in Nodes : HasEdge(rolling_g, v, w)}

\* The innermost backtrack call has run through its loop and does its
\* bookkeeping next.
Returning == pc = "search" /\ Top.i > Len(Top.steps)

\* Every blocked node off the path is registered under each out-neighbour.
Registered ==
    \A v \in blocked \ Range(path) : \A w \in OutNeighbors(v) : v \in B[w]

\* A realization was emitted to the caller during the innermost active call:
\* one whose nodes begin with the path and, in exact mode, whose timestamps
\* begin with times_path.
EmittedDuringCall ==
    \E k \in 1..Len(emitted) :
        /\ Len(NodesOf(k)) > Len(path)
        /\ SubSeq(NodesOf(k), 1, Len(path)) = path
        /\ mode = "exact" => SubSeq(TimesOf(k), 1, Len(times_path)) = times_path

\* C15 as stated: while the cap is not reached, a backtrack call on v that
\* ends after a realization was emitted during it leaves v out of blocked; one
\* that ends without leaves v in blocked and in B[w] for every
\* timestamp-agnostic out-neighbour w of v; and after every step every
\* blocked node that is not on the path is registered in B[w] for each of its
\* out-neighbours w.
C15_EmittedBookkeeping ==
    [][~CapHit =>
          /\ Returning =>
                IF EmittedDuringCall
                THEN Top.v \notin blocked'
                ELSE /\ Top.v \in blocked'
                     /\ \A w \in OutNeighbors(Top.v) : Top.v \in B'[w]
          /\ Registered']_vars

\* C15 amended: the case distinction is on whether the search closed a cycle
\* during the call (closed): in exact mode that is an emitted realization, in
\* structural mode a structural cycle handed to the validator, with or
\* without a valid realization.  Closed leaves v out of blocked; not closed
\* leaves v in blocked and in B[w] for every timestamp-agnostic out-neighbour
\* w of v; and after every step every blocked node that is not on the path is
\* registered in B[w] for each of its out-neighbours w.
C15_Bookkeeping ==
    [][~CapHit =>
          /\ Returning =>
                /\ mode = "exact" => (Top.closed <=> EmittedDuringCall)
                /\ EmittedDuringCall => Top.closed
                /\ IF Top.closed
                   THEN Top.v \notin blocked'
                   ELSE /\ Top.v \in blocked'
                        /\ \A w \in OutNeighbors(Top.v) : Top.v \in B'[w]
          /\ Registered']_vars

\* A node with out-neighbours is blocked and off the path while the search
\* runs on without a cap reached, and the innermost call ends closed.
C15_Witness ==
    /\ Returning /\ ~CapHit
    /\ Top.closed
    /\ \E v \in blocked \ Range(path) : OutNeighbors(v) # {}

\* How often x occurs in the sequence s.
Count(s, x) == Cardinality({i \in 1..Len(s) : s[i] = x})

\* The last_time the k-th active backtrack call was entered with.
LastTimeOf(k) == IF k = 1 THEN None ELSE Some(times_path[k - 1])

C17_SameRealizations ==
    (Done /\ mode \in Modes /\ IsNone(max_cycles) /\ IsNone(max_combo)) =>
        Emitted = BruteForce(rolling_g, max_length, max_duration)

\* The structural engine has finished without caps and emitted a realization
\* along two consecutive edges whose intervals overlap.
C17_Witness ==
    /\ Done /\ mode = "structural" /\ IsNone(max_cycles) /\ IsNone(max_combo)
    /\ \E k \in 1..Len(emitted) : \E i \in 1..(Len(TimesOf(k)) - 1) :
          earliest_time(rolling_g[<<NodesOf(k)[i + 1], NodesOf(k)[i + 2]>>])
              <= latest_time(rolling_g[<<NodesOf(k)[i], NodesOf(k)[i + 1]>>])

\* C18: in exact mode the shared counter never decreases, is not reset
\* between start nodes or components, goes up by one with every emission and
\* equals the number of realizations emitted so far, the one being emitted
\* included.
C18_CounterMonotone ==
    [][mode = "exact" =>
          /\ cycle_count' >= cycle_count
          /\ cycle_count' = Len(emitted')
          /\ Len(emitted') > Len(emitted) => cycle_count' = cycle_count + 1]_vars

\* The exact engine searches from a later start node after realizations were
\* emitted from an earlier one.
C18_Witness ==
    /\ mode = "exact" /\ pc = "search"
    /\ cycle_count > 0
    /\ \A k \in 1..Len(emitted) : NodesOf(k)[1] # start

\* C19: for every graph and configuration, a caller that keeps pulling
\* results reaches the end of the sequence.
C19_Terminates == <>Done

\* A call without a cap has run through every start node and ended, several
\* realizations emitted on the way.
C19_Witness ==
    /\ Done /\ IsNone(max_cycles)
    /\ ci > Len(components)
    /\ Len(emitted) >= 2

====
